---- MODULE Spec2Model ----
(***************************************************************************)
(* A model of pytorch_lightning/trainer/supporters.py: CycleIterator,      *)
(* CombinedLoader and CombinedLoaderIterator (the loader combinator).      *)
(*                                                                         *)
(* Python values are records tagged by `kind`:                             *)
(*   num    a length, an int or float('inf')                               *)
(*   src    a loader (an Iterable that is neither Sequence nor Mapping);   *)
(*          a fresh iterator over it yields the elements 0 .. n-1, or      *)
(*          never ends when n = Inf; haslen says whether it defines        *)
(*          __len__ (a loader over an iterable dataset does not)           *)
(*   seq    a list of values                                               *)
(*   map    a dict of values, keys in insertion order                      *)
(*   cycle  a CycleIterator around `loader` with budget `length`           *)
(*   raise  a raised exception                                             *)
(***************************************************************************)
EXTENDS Integers, Sequences, FiniteSets, TLC

\* The largest number of elements of a loader that defines __len__.
MaxLen == 3
\* The number of elements of the finite loader that defines no __len__ (a
\* loader without __len__ yields MaxNoLen elements, or never ends).
MaxNoLen == 1
\* The largest number of loaders in a sequence or a mapping.
MaxLeaves == 2
\* The largest number of next() calls made on one session.
MaxCalls == 4

\* float('inf'): larger than every int (see Less).
Inf == -1
\* _loader_iter = None: no iterator created yet.
None == -2

Sessions == {"s1", "s2"}
Modes == {"min_size", "max_size_cycle"}
KeyNames == <<"a", "b", "c", "d">>

Num(k) == [kind |-> "num", v |-> k]
Src(n, haslen) == [kind |-> "src", n |-> n, haslen |-> haslen]
SeqOf(items) == [kind |-> "seq", items |-> items]
MapOf(items) == [kind |-> "map", keys |-> SubSeq(KeyNames, 1, Len(items)), items |-> items]
Raise(exc) == [kind |-> "raise", exc |-> exc]

\* No value: an attribute not set, an operation not called yet.
NoValue == [kind |-> "none"]

\* a < b on lengths, float('inf') above every int.
Less(a, b) == a # Inf /\ (b = Inf \/ a < b)

\* a >= b on lengths.
GreaterEq(a, b) == ~Less(a, b)

\* isinstance(x, Iterable), isinstance(x, Sequence), isinstance(x, Mapping)
IsIterable(x) == x.kind \in {"src", "cycle", "seq", "map"}
IsSequence(x) == x.kind = "seq"
IsMapping(x) == x.kind = "map"
IsWrongDtype(x) == IsSequence(x) \/ IsMapping(x)
IsNumber(x) == x.kind = "num"

\* CycleIterator.__init__: length None becomes float('inf'); counter and
\* _loader_iter live in the variable `cycle`.
CycleIterator(loader, length) == [kind |-> "cycle", loader |-> loader, length |-> length]

\* CycleIterator.__len__
CycleIterator_len(c) == c.length

\* utilities.data.get_len: len(x) when x has a usable __len__, else inf.
\* len() of a CycleIterator whose length is no int raises TypeError, which
\* has_len turns into "no length".
get_len(x) ==
    IF x.kind = "src" THEN (IF x.haslen THEN Num(x.n) ELSE Num(Inf))
    ELSE IF x.kind = "cycle"
         THEN (IF IsNumber(CycleIterator_len(x)) THEN CycleIterator_len(x) ELSE Num(Inf))
    ELSE IF x.kind \in {"seq", "map"} THEN Num(Len(x.items))
    ELSE Num(Inf)

\* utilities.apply_func.apply_to_collection(data, Iterable, get_len,
\* wrong_dtype=(Sequence, Mapping)): the same shape with every loader
\* replaced by its length.
RECURSIVE LengthsOf(_)
LengthsOf(data) ==
    IF IsIterable(data) /\ ~IsWrongDtype(data) THEN get_len(data)
    ELSE IF IsWrongDtype(data)
         THEN [data EXCEPT !.items = [i \in 1..Len(data.items) |-> LengthsOf(data.items[i])]]
    ELSE data

\* Python's ordering of two values: "lt", "eq", "gt", or "TypeError" when
\* the operands are not orderable (an int against a list, a dict against
\* anything). Lists compare lexicographically.
RECURSIVE PyCmp(_, _)
RECURSIVE PyCmpItems(_, _)
PyCmp(a, b) ==
    IF IsNumber(a) /\ IsNumber(b)
    THEN (IF Less(a.v, b.v) THEN "lt" ELSE IF Less(b.v, a.v) THEN "gt" ELSE "eq")
    ELSE IF IsSequence(a) /\ IsSequence(b) THEN PyCmpItems(a.items, b.items)
    ELSE "TypeError"
PyCmpItems(xs, ys) ==
    IF xs = <<>> /\ ys = <<>> THEN "eq"
    ELSE IF xs = <<>> THEN "lt"
    ELSE IF ys = <<>> THEN "gt"
    ELSE IF Head(xs) = Head(ys) THEN PyCmpItems(Tail(xs), Tail(ys))
    ELSE PyCmp(Head(xs), Head(ys))

\* The builtin max/min fold: `best` is replaced by an item that compares
\* `want` ("gt" for max, "lt" for min) against it.
RECURSIVE PyFold(_, _, _)
PyFold(best, items, want) ==
    IF items = <<>> THEN best
    ELSE LET c == PyCmp(Head(items), best)
         IN  IF c = "TypeError" THEN Raise("TypeError")
             ELSE PyFold(IF c = want THEN Head(items) ELSE best, Tail(items), want)

\* As PyMax, but max of no values is 0.
PyMax_of_nothing(items) ==
    IF items = <<>> THEN Num(0) ELSE PyFold(Head(items), Tail(items), "gt")

\* max(values): ValueError on an empty argument.
PyMax(items) ==
    IF items = <<>> THEN Raise("ValueError") ELSE PyFold(Head(items), Tail(items), "gt")

\* min(values): ValueError on an empty argument.
PyMin(items) ==
    IF items = <<>> THEN Raise("ValueError") ELSE PyFold(Head(items), Tail(items), "lt")

\* As wrap_loaders_max_size_cycle, but a single loader is wrapped too.
wrap_loaders_also_single(ldrs) ==
    LET all_lengths == LengthsOf(ldrs)
        length == IF IsNumber(all_lengths) THEN all_lengths ELSE PyMax(all_lengths.items)
    IN  IF length.kind = "raise" THEN length
        ELSE IF IsMapping(ldrs) \/ IsSequence(ldrs)
             THEN [ldrs EXCEPT !.items =
                      [i \in 1..Len(ldrs.items) |-> CycleIterator(ldrs.items[i], length)]]
        ELSE IF IsIterable(ldrs) THEN CycleIterator(ldrs, length)
        ELSE Raise("ValueError")

\* As wrap_loaders_max_size_cycle, but every wrapper gets the length of its
\* own loader as budget instead of the maximum.
wrap_loaders_own_length(ldrs) ==
    IF IsMapping(ldrs) \/ IsSequence(ldrs)
    THEN IF ldrs.items = <<>> THEN Raise("ValueError")
         ELSE [ldrs EXCEPT !.items =
                  [i \in 1..Len(ldrs.items) |->
                      CycleIterator(ldrs.items[i], LengthsOf(ldrs.items[i]))]]
    ELSE IF IsIterable(ldrs) THEN ldrs
    ELSE Raise("ValueError")

\* As wrap_loaders_max_size_cycle, but the wrapped loaders of a mapping are
\* collected in a list.
wrap_loaders_as_sequence(ldrs) ==
    LET all_lengths == LengthsOf(ldrs)
        length == IF IsNumber(all_lengths) THEN all_lengths ELSE PyMax(all_lengths.items)
    IN  IF length.kind = "raise" THEN length
        ELSE IF IsMapping(ldrs) \/ IsSequence(ldrs)
             THEN SeqOf([i \in 1..Len(ldrs.items) |-> CycleIterator(ldrs.items[i], length)])
        ELSE IF IsIterable(ldrs) THEN ldrs
        ELSE Raise("ValueError")

\* CombinedLoader._wrap_loaders_max_size_cycle: the budget is the maximum of
\* the lengths of the top-level values; every top-level value of a mapping
\* or a sequence is wrapped, a single loader is kept as it is.
wrap_loaders_max_size_cycle(ldrs) ==
    LET all_lengths == LengthsOf(ldrs)
        length == IF IsNumber(all_lengths) THEN all_lengths ELSE PyMax(all_lengths.items)
    IN  IF length.kind = "raise" THEN length
        ELSE IF IsMapping(ldrs) \/ IsSequence(ldrs)
             THEN [ldrs EXCEPT !.items =
                      [i \in 1..Len(ldrs.items) |-> CycleIterator(ldrs.items[i], length)]]
        ELSE IF IsIterable(ldrs) THEN ldrs
        ELSE Raise("ValueError")

\* As CombinedLoader_init, but the loaders are wrapped whatever the mode.
CombinedLoader_init_always_wrap(ldrs, m) ==
    IF m \notin Modes THEN Raise("MisconfigurationException")
    ELSE IF ldrs.kind \in {"seq", "map"} /\ ldrs.items = <<>> THEN ldrs
    ELSE wrap_loaders_max_size_cycle(ldrs)

\* CombinedLoader.__init__: self.loaders after construction, or the raised
\* exception.
CombinedLoader_init(ldrs, m) ==
    IF m \notin Modes THEN Raise("MisconfigurationException")
    ELSE IF m = "max_size_cycle" THEN wrap_loaders_max_size_cycle(ldrs)
    ELSE ldrs

\* As calc_num_batches, but reducing with max.
calc_num_batches_max(ldrs) ==
    LET all_lengths == LengthsOf(ldrs)
    IN  IF IsNumber(all_lengths) THEN all_lengths
        ELSE IF IsMapping(all_lengths) \/ IsSequence(all_lengths) THEN PyMax(all_lengths.items)
        ELSE Raise("TypeError")

\* CombinedLoader._calc_num_batches: the minimum of the lengths of the
\* top-level values.
calc_num_batches(ldrs) ==
    LET all_lengths == LengthsOf(ldrs)
    IN  IF IsNumber(all_lengths) THEN all_lengths
        ELSE IF IsMapping(all_lengths) \/ IsSequence(all_lengths) THEN PyMin(all_lengths.items)
        ELSE Raise("TypeError")

(***************************************************************************)
(* CombinedDataset, and what CombinedLoader.__init__ and the sampler       *)
(* property read from the loaders.                                         *)
(***************************************************************************)
\* The number of samples in a batch: a loader of n batches reads a dataset
\* of n * BatchSize samples.
BatchSize == 2

\* The value None.
PyNone == [kind |-> "NoneType"]

\* The keys of CombinedDataset.COMPUTE_FUNCS.
COMPUTE_FUNCS == {"min_size", "max_size_cycle"}

\* A mode string that is none of the supported ones.
OtherMode == "other"

\* getattr(loader, 'dataset', None). The dataset of a loader is a value with
\* a length of its own, __len__ defined when the loader defines it.
getattr_dataset(x) ==
    IF x.kind = "src" THEN Src(IF x.n = Inf THEN Inf ELSE x.n * BatchSize, x.haslen)
    ELSE PyNone

\* apply_to_collection(loaders, Iterable, getattr, 'dataset', None,
\* wrong_dtype=(Sequence, Mapping)): the same shape, every loader replaced
\* by its dataset.
RECURSIVE DatasetsOf(_)
DatasetsOf(data) ==
    IF IsWrongDtype(data)
    THEN [data EXCEPT !.items = [i \in 1..Len(data.items) |-> DatasetsOf(data.items[i])]]
    ELSE getattr_dataset(data)

\* getattr(loader, 'sampler', None): a CycleIterator has no such attribute.
getattr_sampler(x) == IF x.kind = "src" THEN [kind |-> "sampler", n |-> x.n] ELSE PyNone

\* CombinedLoader.sampler: apply_to_collection(self.loaders, Iterable,
\* getattr, 'sampler', None, wrong_dtype=(Sequence, Mapping)).
RECURSIVE sampler(_)
sampler(ldrs) ==
    IF IsWrongDtype(ldrs)
    THEN [ldrs EXCEPT !.items = [i \in 1..Len(ldrs.items) |-> sampler(ldrs.items[i])]]
    ELSE getattr_sampler(ldrs)

\* CombinedDataset.__init__: the datasets and the mode, or the exception.
CombinedDataset(datasets, m) ==
    IF m \notin COMPUTE_FUNCS THEN Raise("MisconfigurationException")
    ELSE [kind |-> "combined_dataset", datasets |-> datasets, mode |-> m]

\* CombinedDataset._calc_num_data: the lengths of the datasets reduced with
\* COMPUTE_FUNCS[mode], min for min_size and max for max_size_cycle.
calc_num_data(datasets, m) ==
    IF m \notin COMPUTE_FUNCS THEN Raise("MisconfigurationException")
    ELSE LET all_lengths == LengthsOf(datasets)
         IN  IF IsNumber(all_lengths) THEN all_lengths
             ELSE IF IsMapping(all_lengths) \/ IsSequence(all_lengths)
                  THEN (IF m = "min_size" THEN PyMin(all_lengths.items)
                        ELSE PyMax(all_lengths.items))
             ELSE Raise("UnboundLocalError")

\* CombinedDataset.max_len
max_len(ds) == calc_num_data(ds.datasets, "max_size_cycle")

\* CombinedDataset.min_len
min_len(ds) == calc_num_data(ds.datasets, "min_size")

\* As CombinedDataset_len, but the minimum whatever the mode.
CombinedDataset_len_always_min(ds) == calc_num_data(ds.datasets, "min_size")

\* CombinedDataset.__len__
CombinedDataset_len(ds) == calc_num_data(ds.datasets, ds.mode)

\* Whether a container holds a loader at any depth.
RECURSIVE HasLoader(_)
HasLoader(data) ==
    IF IsWrongDtype(data) THEN \E i \in 1..Len(data.items) : HasLoader(data.items[i])
    ELSE IsIterable(data)

\* CombinedLoader.__init__: self.dataset after the constructor returned or
\* raised; the attribute is not set when CombinedDataset raised.
CombinedLoader_init_dataset(ldrs, m) ==
    LET ds == CombinedDataset(DatasetsOf(ldrs), m)
    IN  IF ds.kind = "raise" THEN NoValue ELSE ds

\* CombinedLoader.__init__: what the constructor did to the loaders before
\* it returned or raised. The dataset attribute of every loader is read
\* first; the mode is looked at after that, by CombinedDataset and then by
\* the constructor itself; in max_size_cycle the lengths are taken and the
\* top-level values wrapped.
CombinedLoader_init_touched(ldrs, m) ==
    LET read == IF HasLoader(ldrs) THEN {"getattr"} ELSE {}
    IN  IF m \notin COMPUTE_FUNCS THEN read
        ELSE IF m \notin Modes THEN read
        ELSE IF m # "max_size_cycle" THEN read
        ELSE read \cup (IF HasLoader(ldrs) THEN {"len"} ELSE {})
                  \cup (IF IsWrongDtype(ldrs) /\ wrap_loaders_max_size_cycle(ldrs).kind # "raise"
                        THEN {"wrap"} ELSE {})

(***************************************************************************)
(* The state.                                                              *)
(***************************************************************************)
VARIABLES
    raw,         \* the `loaders` argument CombinedLoader was constructed with
    mode,        \* CombinedLoader.mode
    loaders,     \* CombinedLoader.loaders, after construction
    cycle,       \* per top-level position, the fields of its CycleIterator
    session,     \* per session, the CombinedLoaderIterator and what it returned
    len_result,  \* what the last len(combined_loader) returned
    dataset,     \* CombinedLoader.dataset, the CombinedDataset
    init_touched,\* what CombinedLoader.__init__ did to the loaders
    view,        \* the last read of the dataset's lengths or of the sampler
    accum,       \* the fields of a TensorRunningAccum
    appended,    \* the values appended to it since it was made or reset
    accum_out    \* what the last last(), mean(), max() or min() returned

\* The other fields of a CombinedLoader, and the accumulator.
dataset_vars == <<dataset, init_touched, view>>
accum_vars == <<accum, appended, accum_out>>

vars == <<raw, mode, loaders, cycle, session, len_result, dataset_vars, accum_vars>>

StopIteration == Raise("StopIteration")
Elem(k) == [kind |-> "elem", v |-> k]

\* The top-level values of self.loaders; a single loader is its own only one.
Items(ldrs) == IF IsWrongDtype(ldrs) THEN ldrs.items ELSE <<ldrs>>

\* A loader of n elements whose iterators raise RuntimeError instead of
\* returning element `failat`, each time they are asked for it.
FailingSrc(n, failat) == [kind |-> "src", n |-> n, haslen |-> TRUE, failat |-> failat]
Fails(src, pos) == "failat" \in DOMAIN src /\ src.failat = pos

\* next(it) on an iterator over loader `src` standing at `pos`.
IterNext(src, pos) ==
    IF Fails(src, pos) THEN [pos |-> pos, res |-> Raise("RuntimeError")]
    ELSE IF Less(pos, src.n) THEN [pos |-> pos + 1, res |-> Elem(pos)]
    ELSE [pos |-> pos, res |-> StopIteration]

\* As CycleIterator_iter, but the counter is kept.
CycleIterator_iter_keep_counter(c) == [c EXCEPT !._loader_iter = 0]

\* CycleIterator.__iter__: counter = 0, a new iterator over the loader.
CycleIterator_iter(c) == [c EXCEPT !.counter = 0, !._loader_iter = 0, !.returned = 0]

\* As CycleIterator_pull, but an exhausted iterator is not replaced: its
\* StopIteration leaves the call.
CycleIterator_pull_no_restart(c, obj) ==
    IF c._loader_iter = None
    THEN [c |-> [c EXCEPT !.counter = @ + 1], res |-> Raise("TypeError"), restarted |-> FALSE]
    ELSE LET first == IterNext(obj.loader, c._loader_iter)
         IN  [c |-> [c EXCEPT !._loader_iter = first.pos, !.counter = @ + 1,
                              !.returned = @ + (IF first.res.kind = "elem" THEN 1 ELSE 0)],
              res |-> first.res, restarted |-> FALSE]

\* As CycleIterator_pull, but whatever next() raises is taken for the end of
\* the iterator: a new iterator, and next() again.
CycleIterator_pull_retry(c, obj) ==
    IF c._loader_iter = None
    THEN [c |-> [c EXCEPT !.counter = @ + 1], res |-> Raise("TypeError"), restarted |-> FALSE]
    ELSE LET first == IterNext(obj.loader, c._loader_iter)
         IN  IF first.res.kind = "elem"
             THEN [c |-> [c EXCEPT !._loader_iter = first.pos, !.counter = @ + 1,
                                   !.returned = @ + 1],
                   res |-> first.res, restarted |-> FALSE]
             ELSE LET again == IterNext(obj.loader, 0)
                  IN  [c |-> [c EXCEPT !._loader_iter = again.pos, !.counter = @ + 1,
                                       !.returned = @ + (IF again.res.kind = "elem" THEN 1 ELSE 0)],
                       res |-> again.res, restarted |-> TRUE]

\* As CycleIterator_pull, but the next() on the new iterator has a default:
\* over an empty loader the call returns None instead of raising.
CycleIterator_pull_default(c, obj) ==
    IF c._loader_iter = None
    THEN [c |-> [c EXCEPT !.counter = @ + 1], res |-> Raise("TypeError"), restarted |-> FALSE]
    ELSE LET first == IterNext(obj.loader, c._loader_iter)
         IN  IF first.res.kind = "elem"
             THEN [c |-> [c EXCEPT !._loader_iter = first.pos, !.counter = @ + 1,
                                   !.returned = @ + 1],
                   res |-> first.res, restarted |-> FALSE]
             ELSE IF first.res # StopIteration
             THEN [c |-> [c EXCEPT !.counter = @ + 1], res |-> first.res, restarted |-> FALSE]
             ELSE LET again == IterNext(obj.loader, 0)
                  IN  [c |-> [c EXCEPT !._loader_iter = again.pos, !.counter = @ + 1,
                                       !.returned = @ + 1],
                       res |-> IF again.res = StopIteration THEN Elem(None) ELSE again.res,
                       restarted |-> TRUE]

\* CycleIterator.__next__ past the budget check, on the fields c of the
\* wrapper obj: try next(), on StopIteration a new iterator and next()
\* again, finally counter += 1. Gives the fields after the call, what the
\* call returns or raises, and whether it created a new iterator.
CycleIterator_pull(c, obj) ==
    IF c._loader_iter = None
    THEN [c |-> [c EXCEPT !.counter = @ + 1], res |-> Raise("TypeError"), restarted |-> FALSE]
    ELSE LET first == IterNext(obj.loader, c._loader_iter)
         IN  IF first.res.kind = "elem"
             THEN [c |-> [c EXCEPT !._loader_iter = first.pos, !.counter = @ + 1,
                                   !.returned = @ + 1],
                   res |-> first.res, restarted |-> FALSE]
             ELSE IF first.res # StopIteration
             THEN [c |-> [c EXCEPT !.counter = @ + 1], res |-> first.res, restarted |-> FALSE]
             ELSE LET again == IterNext(obj.loader, 0)
                  IN  [c |-> [c EXCEPT !._loader_iter = again.pos, !.counter = @ + 1,
                                       !.returned = @ + (IF again.res.kind = "elem" THEN 1 ELSE 0)],
                       res |-> again.res, restarted |-> TRUE]

\* As CycleIterator_next, but the budget check is counter > length.
CycleIterator_next_late(c, obj) ==
    IF Less(CycleIterator_len(obj).v, c.counter)
    THEN [c |-> c, res |-> StopIteration, restarted |-> FALSE]
    ELSE CycleIterator_pull(c, obj)

\* CycleIterator.__next__: StopIteration once counter >= length, before
\* anything is pulled.
CycleIterator_next(c, obj) ==
    IF GreaterEq(c.counter, CycleIterator_len(obj).v)
    THEN [c |-> c, res |-> StopIteration, restarted |-> FALSE]
    ELSE CycleIterator_pull(c, obj)

\* iter(x) for one top-level value: a loader gives a new iterator at its
\* first element; a CycleIterator resets itself and returns itself.
PlainIter(pos) == [kind |-> "iter", pos |-> pos]
SelfIter == [kind |-> "self"]

\* CombinedLoaderIterator.create_loader_iters: iter() on every top-level
\* value, in order. Gives the iterators and the CycleIterator fields.
create_loader_iters(ldrs, cyc) ==
    LET items == Items(ldrs)
    IN  [iters |-> [i \in 1..Len(items) |->
                       IF items[i].kind = "cycle" THEN SelfIter ELSE PlainIter(0)],
         cycle |-> [i \in 1..Len(items) |->
                       IF items[i].kind = "cycle" THEN CycleIterator_iter(cyc[i]) ELSE cyc[i]]]

\* The value apply_to_collection rebuilds from the per-loader results: the
\* container's own kind and keys, or the bare result for a single loader.
Shape(ldrs, vals) == IF IsWrongDtype(ldrs) THEN [ldrs EXCEPT !.items = vals] ELSE vals[1]

\* next() on the iterators from position i on, in order, stopping at the
\* first one that raises.
RECURSIVE NextInOrder(_, _, _)
NextInOrder(i, items, acc) ==
    IF i > Len(items) THEN acc
    ELSE IF acc.iters[i].kind = "self"
    THEN LET r == CycleIterator_next(acc.cycle[i], items[i])
             stepped == [acc EXCEPT !.cycle[i] = r.c, !.restarted[i] = r.restarted]
         IN  IF r.res.kind = "elem"
             THEN NextInOrder(i + 1, items, [stepped EXCEPT !.vals = Append(@, r.res)])
             ELSE [stepped EXCEPT !.res = r.res]
    ELSE LET r == IterNext(items[i], acc.iters[i].pos)
             stepped == [acc EXCEPT !.iters[i] = PlainIter(r.pos)]
         IN  IF r.res.kind = "elem"
             THEN NextInOrder(i + 1, items, [stepped EXCEPT !.vals = Append(@, r.res)])
             ELSE [stepped EXCEPT !.res = r.res]

PullAll(ldrs, iters, cyc) ==
    NextInOrder(1, Items(ldrs),
                [iters |-> iters, cycle |-> cyc, vals |-> <<>>,
                 restarted |-> [i \in 1..Len(Items(ldrs)) |-> FALSE], res |-> NoValue])

\* next() on every iterator from position i on, also after one has raised;
\* the first exception is kept.
RECURSIVE NextOfEvery(_, _, _)
NextOfEvery(i, items, acc) ==
    IF i > Len(items) THEN acc
    ELSE IF acc.iters[i].kind = "self"
    THEN LET r == CycleIterator_next(acc.cycle[i], items[i])
             stepped == [acc EXCEPT !.cycle[i] = r.c, !.restarted[i] = r.restarted]
         IN  IF r.res.kind = "elem"
             THEN NextOfEvery(i + 1, items, [stepped EXCEPT !.vals = Append(@, r.res)])
             ELSE NextOfEvery(i + 1, items,
                              IF acc.res.kind = "raise" THEN stepped
                              ELSE [stepped EXCEPT !.res = r.res])
    ELSE LET r == IterNext(items[i], acc.iters[i].pos)
             stepped == [acc EXCEPT !.iters[i] = PlainIter(r.pos)]
         IN  IF r.res.kind = "elem"
             THEN NextOfEvery(i + 1, items, [stepped EXCEPT !.vals = Append(@, r.res)])
             ELSE NextOfEvery(i + 1, items,
                              IF acc.res.kind = "raise" THEN stepped
                              ELSE [stepped EXCEPT !.res = r.res])

\* As request_next_batch, but every iterator is advanced before the first
\* exception is raised.
request_next_batch_every(ldrs, iters, cyc) ==
    LET r == NextOfEvery(1, Items(ldrs),
                         [iters |-> iters, cycle |-> cyc, vals |-> <<>>,
                          restarted |-> [i \in 1..Len(Items(ldrs)) |-> FALSE],
                          res |-> NoValue])
    IN  [r EXCEPT !.res = IF r.res.kind = "raise" THEN r.res ELSE Shape(ldrs, r.vals)]

\* As request_next_batch, but a StopIteration ends the traversal and the
\* values pulled so far are returned.
request_next_batch_partial(ldrs, iters, cyc) ==
    LET r == PullAll(ldrs, iters, cyc)
    IN  [r EXCEPT !.res = IF IsWrongDtype(ldrs) THEN [ldrs EXCEPT !.items = r.vals]
                          ELSE IF r.vals = <<>> THEN r.res ELSE r.vals[1]]

\* CombinedLoaderIterator.request_next_batch: apply_to_collection(loader_iters,
\* Iterator, next). An exception raised by one next() leaves the call at once.
request_next_batch(ldrs, iters, cyc) ==
    LET r == PullAll(ldrs, iters, cyc)
    IN  [r EXCEPT !.res = IF r.res.kind = "raise" THEN r.res ELSE Shape(ldrs, r.vals)]

NewCycleFields == [counter |-> 0, _loader_iter |-> None, returned |-> 0]

Leaves ==
    {Src(n, TRUE) : n \in 0..MaxLen} \cup {Src(n, FALSE) : n \in {MaxNoLen, Inf}}

LeafSeqs == UNION {[1..k -> Leaves] : k \in 0..MaxLeaves}

\* A single loader, a sequence of loaders, or a mapping of loaders.
FlatContainers == Leaves \cup {SeqOf(x) : x \in LeafSeqs} \cup {MapOf(x) : x \in LeafSeqs}

NewSession(n) ==
    [st |-> "unborn", iters |-> <<>>, calls |-> 0, succ |-> 0, failed |-> FALSE,
     out |-> NoValue, restarts |-> [i \in 1..n |-> 0]]

\* No TensorRunningAccum has been made.
NoAccum == accum = NoValue /\ appended = <<>> /\ accum_out = NoValue

\* The state after CombinedLoader(given, m) returned.
AfterInit(given, m) ==
    LET built == CombinedLoader_init(given, m)
    IN  /\ built.kind # "raise"
        /\ raw = given
        /\ mode = m
        /\ loaders = built
        /\ cycle = [i \in 1..Len(Items(built)) |->
                       IF Items(built)[i].kind = "cycle" THEN NewCycleFields ELSE NoValue]
        /\ session = [s \in Sessions |-> NewSession(Len(Items(built)))]
        /\ len_result = NoValue
        /\ dataset = CombinedLoader_init_dataset(given, m)
        /\ init_touched = CombinedLoader_init_touched(given, m)
        /\ view = NoValue
        /\ NoAccum

Init == \E m \in Modes, given \in FlatContainers : AfterInit(given, m)

\* CombinedLoader.__iter__: a new CombinedLoaderIterator, _loader_iters None.
\* The sessions are created in the order s1, s2.
CombinedLoader_iter(s) ==
    /\ session[s].st = "unborn"
    /\ s = "s2" => session["s1"].st # "unborn"
    /\ session' = [session EXCEPT ![s].st = "new"]
    /\ UNCHANGED <<raw, mode, loaders, cycle, len_result, dataset_vars, accum_vars>>

\* As CombinedLoaderIterator_next, but the iterators are created by every
\* call.
CombinedLoaderIterator_next_rebuilding(s) ==
    /\ session[s].st \in {"new", "built"}
    /\ session[s].calls < MaxCalls
    /\ LET me == session[s]
           loader_iters == create_loader_iters(loaders, cycle)
           r == request_next_batch(loaders, loader_iters.iters, loader_iters.cycle)
           ok == r.res.kind # "raise"
       IN  /\ cycle' = r.cycle
           /\ session' = [session EXCEPT ![s] =
                  [st |-> "built", iters |-> r.iters, calls |-> me.calls + 1,
                   succ |-> me.succ + (IF ok THEN 1 ELSE 0),
                   failed |-> me.failed \/ ~ok, out |-> r.res,
                   restarts |-> [i \in 1..Len(me.restarts) |->
                                    me.restarts[i] + (IF r.restarted[i] THEN 1 ELSE 0)]]]
    /\ UNCHANGED <<raw, mode, loaders, len_result, dataset_vars, accum_vars>>

\* CombinedLoaderIterator.__next__: the iterators are created by the first
\* call (the loader_iters property), then every one is advanced.
CombinedLoaderIterator_next(s) ==
    /\ session[s].st \in {"new", "built"}
    /\ session[s].calls < MaxCalls
    /\ LET me == session[s]
           loader_iters == IF me.st = "new" THEN create_loader_iters(loaders, cycle)
                           ELSE [iters |-> me.iters, cycle |-> cycle]
           r == request_next_batch(loaders, loader_iters.iters, loader_iters.cycle)
           ok == r.res.kind # "raise"
       IN  /\ cycle' = r.cycle
           /\ session' = [session EXCEPT ![s] =
                  [st |-> "built", iters |-> r.iters, calls |-> me.calls + 1,
                   succ |-> me.succ + (IF ok THEN 1 ELSE 0),
                   failed |-> me.failed \/ ~ok, out |-> r.res,
                   restarts |-> [i \in 1..Len(me.restarts) |->
                                    me.restarts[i] + (IF r.restarted[i] THEN 1 ELSE 0)]]]
    /\ UNCHANGED <<raw, mode, loaders, len_result, dataset_vars, accum_vars>>

\* CombinedLoader.__len__
CombinedLoader_len ==
    /\ len_result' = calc_num_batches(loaders)
    /\ UNCHANGED <<raw, mode, loaders, cycle, session, dataset_vars, accum_vars>>

Next ==
    \/ \E s \in Sessions : CombinedLoader_iter(s)
    \/ \E s \in Sessions : CombinedLoaderIterator_next(s)
    \/ CombinedLoader_len

Spec == Init /\ [][Next]_vars

(***************************************************************************)
(* What the claims speak of, stated from the constructor's argument.       *)
(***************************************************************************)
N == Len(Items(raw))
Leaf(i) == Items(raw)[i]
IsCollection == IsWrongDtype(raw)

\* The number of elements leaf i yields, and the length it declares.
Count(i) == Leaf(i).n
DeclaredLen(i) == IF Leaf(i).haslen THEN Leaf(i).n ELSE Inf

Minimum(S) == CHOOSE m \in S : \A k \in S : m <= k
Maximum(S) == CHOOSE m \in S : \A k \in S : m >= k
MinOfLengths(S) == IF S \ {Inf} = {} THEN Inf ELSE Minimum(S \ {Inf})
MaxOfLengths(S) == IF Inf \in S THEN Inf ELSE Maximum(S)
Smaller(a, b) == IF a < b THEN a ELSE b

ShortestCount == MinOfLengths({Count(i) : i \in 1..N})
ShortestLen == MinOfLengths({DeclaredLen(i) : i \in 1..N})
LongestLen == MaxOfLengths({DeclaredLen(i) : i \in 1..N})

\* Every leaf declares its length and is not empty.
AllSized == \A i \in 1..N : Leaf(i).haslen /\ Leaf(i).n >= 1

\* C1: in mode min_size over a sequence or mapping whose shortest leaf
\* yields m elements (m finite), the first m calls to next() of a session
\* succeed and every later call raises StopIteration.
C1_ShortestStops ==
    (mode = "min_size" /\ IsCollection /\ N >= 1 /\ ShortestCount # Inf) =>
        \A s \in Sessions :
            LET me == session[s]
            IN  /\ me.succ = Smaller(me.calls, ShortestCount)
                /\ me.failed = (me.calls > ShortestCount)
                /\ (me.calls > ShortestCount => me.out = StopIteration)
                /\ (me.calls >= 1 /\ me.calls <= ShortestCount => me.out.kind = raw.kind)

\* A session in min_size over leaves of different sizes, the shorter one of
\* two elements or more, has made m successful calls and one failing call.
C1_Witness ==
    /\ mode = "min_size" /\ IsCollection /\ N = 2
    /\ Count(1) # Count(2) /\ ShortestCount # Inf /\ ShortestCount >= 2
    /\ \E s \in Sessions :
          /\ session[s].calls = ShortestCount + 1
          /\ session[s].succ = ShortestCount
          /\ session[s].failed

\* C4: whatever a next() call of a session returned is a value for every
\* leaf in the container's own shape; a call in which some leaf raised
\* returned nothing but the StopIteration.
FullOutput(out) ==
    IF IsCollection
    THEN /\ out.kind = raw.kind
         /\ Len(out.items) = N
         /\ \A i \in 1..N : out.items[i].kind = "elem"
         /\ (raw.kind = "map" => out.keys = raw.keys)
    ELSE out.kind = "elem"

C4_AllOrNothing ==
    \A s \in Sessions :
        LET me == session[s]
        IN  IF me.calls = 0 THEN me.out = NoValue
            ELSE me.out = StopIteration \/ FullOutput(me.out)

\* A call failed after it had pulled a value from an earlier leaf: the first
\* leaf's iterator is further than the number of values returned from it.
C4_Witness ==
    /\ mode = "min_size" /\ IsCollection /\ N = 2
    /\ \E s \in Sessions :
          /\ session[s].out = StopIteration
          /\ session[s].succ >= 1
          /\ session[s].iters[1].pos = session[s].succ + 1
          /\ session[s].iters[2].pos = session[s].succ

\* The wrapper at top-level position i and its budget.
IsWrapped(i) == Items(loaders)[i].kind = "cycle"
Budget(i) == CycleIterator_len(Items(loaders)[i]).v

\* A step that is the first next() of some session: create_loader_iters
\* calls __iter__ on every wrapper.
Begins == \E s \in Sessions : session[s].st = "new" /\ session'[s].st = "built"

\* Session s made a next() call in this step.
Called(s) == session'[s].calls = session[s].calls + 1

\* counter and the number of elements returned since the last __iter__ lie
\* within 0 .. budget.
C7_CounterInBudget ==
    \A i \in 1..N :
        (IsWrapped(i) /\ Budget(i) # Inf) =>
            /\ cycle[i].counter >= 0 /\ cycle[i].counter <= Budget(i)
            /\ cycle[i].returned >= 0 /\ cycle[i].returned <= Budget(i)

\* A step that is no first call of a session leaves a wrapper with
\* counter >= budget untouched, and the call that reached it raised.
C7_NoPullPastBudget ==
    \A i \in 1..N :
        (IsWrapped(i) /\ Budget(i) # Inf /\ cycle[i].counter >= Budget(i) /\ ~Begins) =>
            /\ cycle'[i] = cycle[i]
            /\ \A s \in Sessions :
                  (Called(s) /\ \A j \in 1..(i - 1) : cycle'[j].counter # cycle[j].counter)
                      => session'[s].out = StopIteration

\* C7: a CycleIterator with a finite budget B never has counter outside
\* 0..B, has returned at most B elements since its last __iter__, and a
\* next() on it with counter >= B raises StopIteration and pulls nothing
\* from its loader.
C7_BudgetBound == [](C7_CounterInBudget) /\ [][C7_NoPullPastBudget]_vars

\* A wrapper with a budget of two or more, shorter than its budget, has
\* returned its whole budget and then refused a call.
C7_Witness ==
    /\ mode = "max_size_cycle" /\ IsCollection /\ N = 2
    /\ \E i \in 1..N :
          /\ Budget(i) # Inf /\ Budget(i) >= 2 /\ Count(i) < Budget(i)
          /\ cycle[i].counter = Budget(i)
          /\ cycle[i].returned = Budget(i)
    /\ \E s \in Sessions : session[s].failed /\ session[s].out = StopIteration

\* C8: in mode min_size over a sequence or mapping, len() is the minimum of
\* the leaves' declared lengths, a leaf without __len__ counting as
\* unbounded: the smallest declared length when there is one, inf otherwise.
C8_LenIsMin ==
    (mode = "min_size" /\ IsCollection /\ N >= 1 /\ len_result # NoValue) =>
        len_result = Num(ShortestLen)

\* len() answered with a leaf's length while another leaf has no length.
C8_Witness ==
    /\ mode = "min_size" /\ IsCollection /\ N = 2
    /\ \E i, j \in 1..N : DeclaredLen(i) = Inf /\ DeclaredLen(j) = 2
    /\ len_result = Num(2)

\* C9: in mode max_size_cycle over a sequence or mapping, len() is the
\* maximum of the leaves' declared lengths, inf when a leaf has none.
C9_LenIsMax ==
    (mode = "max_size_cycle" /\ IsCollection /\ len_result # NoValue) =>
        len_result = Num(LongestLen)

\* len() answered with the longest leaf's length, the other leaf shorter.
C9_Witness ==
    /\ mode = "max_size_cycle" /\ IsCollection /\ N = 2
    /\ DeclaredLen(1) = 1 /\ DeclaredLen(2) = 3
    /\ len_result = Num(3)

\* At most one session has made a next() call so far.
OneSession == \E t \in Sessions : session[t].st # "built"

\* What C2 says of session s: its first LongestLen calls succeed, each with
\* an element of every leaf, and every later call raises StopIteration.
YieldsLongest(s) ==
    LET me == session[s]
    IN  /\ me.succ = Smaller(me.calls, LongestLen)
        /\ me.failed = (me.calls > LongestLen)
        /\ (me.calls > LongestLen => me.out = StopIteration)

\* What C3 says of session s: its i-th successful call, i < LongestLen,
\* returned element i mod n of every leaf of n elements.
CyclesInOrder(s) ==
    LET me == session[s]
    IN  (me.calls >= 1 /\ me.out.kind # "raise" /\ me.succ <= LongestLen) =>
            \A i \in 1..N : me.out.items[i] = Elem((me.succ - 1) % Count(i))

\* What C10 says of session s: once it has failed, leaf i was restarted
\* ceil(LongestLen / n) - 1 times in it.
RestartsAsExpected(s) ==
    LET me == session[s]
    IN  me.failed =>
            \A i \in 1..N :
                me.restarts[i] = ((LongestLen + Count(i) - 1) \div Count(i)) - 1

\* C2: in mode max_size_cycle over a sequence or mapping of non-empty
\* leaves with finite longest length L, exactly L calls to next() of a
\* session succeed and all leaves are exhausted on call L + 1, never before.
C2_LongestCycles ==
    (mode = "max_size_cycle" /\ IsCollection /\ AllSized) =>
        \A s \in Sessions : YieldsLongest(s)

\* C2 holds as long as only one session pulls.
C2_OneSession ==
    (mode = "max_size_cycle" /\ IsCollection /\ AllSized /\ OneSession) =>
        \A s \in Sessions : YieldsLongest(s)

\* C3: in mode max_size_cycle the i-th successful next() of a session
\* returns element i mod n of a leaf of n elements.
C3_RestartAtFirst ==
    (mode = "max_size_cycle" /\ IsCollection /\ AllSized) =>
        \A s \in Sessions : CyclesInOrder(s)

\* C3 holds as long as only one session pulls.
C3_OneSession ==
    (mode = "max_size_cycle" /\ IsCollection /\ AllSized /\ OneSession) =>
        \A s \in Sessions : CyclesInOrder(s)

\* C5: two sessions begun on one combinator in mode max_size_cycle, their
\* next() calls interleaved in any order, each yield their own L elements
\* from every leaf's first element on.
C5_SessionsIndependent ==
    (/\ mode = "max_size_cycle" /\ IsCollection /\ AllSized
     /\ \A t \in Sessions : session[t].st = "built") =>
        \A s \in Sessions :
            /\ session[s].succ = Smaller(session[s].calls, LongestLen)
            /\ CyclesInOrder(s)

\* C10: in mode max_size_cycle with finite L, over a complete session a
\* leaf of n elements is restarted exactly ceil(L / n) - 1 times.
C10_RestartCount ==
    (mode = "max_size_cycle" /\ IsCollection /\ AllSized) =>
        \A s \in Sessions : RestartsAsExpected(s)

\* C10 holds as long as only one session pulls.
C10_OneSession ==
    (mode = "max_size_cycle" /\ IsCollection /\ AllSized /\ OneSession) =>
        \A s \in Sessions : RestartsAsExpected(s)

(***************************************************************************)
(* Construction over nested containers: the constructor as a step.         *)
(***************************************************************************)
NestedLeaves == {Src(n, TRUE) : n \in 1..MaxLen} \cup {Src(Inf, FALSE)}

NestedLeafSeqs == UNION {[1..k -> NestedLeaves] : k \in {1, 2}}

\* A loader, or a sequence or mapping of one or two loaders.
Inner ==
    NestedLeaves \cup {SeqOf(x) : x \in NestedLeafSeqs} \cup {MapOf(x) : x \in NestedLeafSeqs}

InnerSeqs == UNION {[1..k -> Inner] : k \in {1, 2}}

\* Containers of depth at most two.
NestedContainers ==
    NestedLeaves \cup {SeqOf(x) : x \in InnerSeqs} \cup {MapOf(x) : x \in InnerSeqs}

\* Before CombinedLoader(raw, mode) runs.
InitNested ==
    /\ raw \in NestedContainers
    /\ mode \in Modes
    /\ loaders = NoValue
    /\ cycle = <<>>
    /\ session = [s \in Sessions |-> NewSession(0)]
    /\ len_result = NoValue
    /\ dataset = NoValue
    /\ init_touched = {}
    /\ view = NoValue
    /\ NoAccum

\* CombinedLoader.__init__ as a step: self.loaders or the exception raised,
\* self.dataset, what was done to the loaders, and the new CycleIterators.
CombinedLoader_construct ==
    /\ loaders = NoValue
    /\ LET built == CombinedLoader_init(raw, mode)
       IN  /\ loaders' = built
           /\ cycle' = [i \in 1..Len(Items(built)) |->
                           IF Items(built)[i].kind = "cycle" THEN NewCycleFields ELSE NoValue]
           /\ session' = [s \in Sessions |-> NewSession(Len(Items(built)))]
    /\ dataset' = CombinedLoader_init_dataset(raw, mode)
    /\ init_touched' = CombinedLoader_init_touched(raw, mode)
    /\ UNCHANGED <<raw, mode, len_result, view, accum_vars>>

\* len() of a constructed combinator.
CombinedLoader_len_constructed ==
    /\ loaders.kind \notin {"none", "raise"}
    /\ CombinedLoader_len

NextNested ==
    \/ CombinedLoader_construct
    \/ CombinedLoader_len_constructed

SpecNested == InitNested /\ [][NextNested]_vars

\* The declared lengths of all leaves of a container, at any depth.
RECURSIVE LeafLens(_)
LeafLens(x) ==
    IF x.kind = "src" THEN {get_len(x).v}
    ELSE UNION {LeafLens(x.items[i]) : i \in 1..Len(x.items)}

\* The container with every leaf loader, at any depth, replaced by a
\* CycleIterator of budget L around it.
RECURSIVE WrapLeaves(_, _)
WrapLeaves(x, L) ==
    IF x.kind = "src" THEN CycleIterator(x, Num(L))
    ELSE [x EXCEPT !.items = [i \in 1..Len(x.items) |-> WrapLeaves(x.items[i], L)]]

\* No top-level value is itself a sequence or a mapping.
IsFlat(x) == \A i \in 1..Len(Items(x)) : ~IsWrongDtype(Items(x)[i])

\* C6: in mode max_size_cycle, construction replaces every leaf loader of a
\* sequence or mapping, at any nesting depth, by a CycleIterator whose
\* budget is the maximum length over all leaves.
C6_EveryLeafWrapped ==
    (mode = "max_size_cycle" /\ IsWrongDtype(raw) /\ loaders # NoValue) =>
        loaders = WrapLeaves(raw, MaxOfLengths(LeafLens(raw)))

\* C6 holds of the containers whose values are all loaders.
C6_FlatWrapped ==
    (mode = "max_size_cycle" /\ IsWrongDtype(raw) /\ IsFlat(raw) /\ loaders # NoValue) =>
        loaders = WrapLeaves(raw, MaxOfLengths(LeafLens(raw)))

(***************************************************************************)
(* The shape of what a session returns.                                    *)
(***************************************************************************)
\* C11: every element a session's next() returned has the structural kind
\* of the container given at construction (a single element for a single
\* loader, a sequence for a sequence, a mapping for a mapping) and, for a
\* mapping, its keys; in max_size_cycle as in min_size.
C11_ShapePreserved ==
    \A s \in Sessions :
        LET out == session[s].out
        IN  out.kind \notin {"none", "raise"} =>
                /\ (IsSequence(raw) => IsSequence(out) /\ Len(out.items) = N)
                /\ (IsMapping(raw) => IsMapping(out) /\ out.keys = raw.keys)
                /\ (~IsCollection => out.kind = "elem")

\* A session over a mapping of two wrapped loaders returned a mapping with
\* both keys after the shorter loader was restarted.
C11_Witness ==
    /\ mode = "max_size_cycle" /\ IsMapping(raw) /\ N = 2
    /\ \A i \in 1..N : IsWrapped(i)
    /\ \E s \in Sessions :
          /\ session[s].restarts[1] >= 1
          /\ IsMapping(session[s].out)
          /\ session[s].out.keys = <<"a", "b">>

(***************************************************************************)
(* The constructor with any mode string, one session, and the reads of     *)
(* the lengths and of the samplers.                                        *)
(***************************************************************************)
\* Before CombinedLoader(raw, mode) runs, the mode any string.
InitDataset ==
    /\ raw \in FlatContainers
    /\ mode \in Modes \cup {OtherMode}
    /\ loaders = NoValue
    /\ cycle = <<>>
    /\ session = [s \in Sessions |-> NewSession(0)]
    /\ len_result = NoValue
    /\ dataset = NoValue
    /\ init_touched = {}
    /\ view = NoValue
    /\ NoAccum

\* The constructor has returned a CombinedLoader.
Constructed == loaders.kind \notin {"none", "raise"}

\* iter(combined_loader) and next() on it, for one session.
FirstSession_iter == Constructed /\ CombinedLoader_iter("s1")
FirstSession_next == Constructed /\ CombinedLoaderIterator_next("s1")

Read(op, res) == [op |-> op, res |-> res]

\* combined_loader.dataset.max_len
CombinedDataset_max_len ==
    /\ Constructed
    /\ view' = Read("max_len", max_len(dataset))
    /\ UNCHANGED <<raw, mode, loaders, cycle, session, len_result, dataset, init_touched,
                   accum_vars>>

\* combined_loader.dataset.min_len
CombinedDataset_min_len ==
    /\ Constructed
    /\ view' = Read("min_len", min_len(dataset))
    /\ UNCHANGED <<raw, mode, loaders, cycle, session, len_result, dataset, init_touched,
                   accum_vars>>

\* combined_loader.dataset.__len__()
CombinedDataset_dataset_len ==
    /\ Constructed
    /\ view' = Read("dataset_len", CombinedDataset_len(dataset))
    /\ UNCHANGED <<raw, mode, loaders, cycle, session, len_result, dataset, init_touched,
                   accum_vars>>

\* As CombinedLoader_sampler, but the samplers are looked for on new
\* iterators over the loaders.
CombinedLoader_sampler_iterating ==
    /\ Constructed
    /\ view' = Read("sampler", sampler(loaders))
    /\ cycle' = create_loader_iters(loaders, cycle).cycle
    /\ UNCHANGED <<raw, mode, loaders, session, len_result, dataset, init_touched,
                   accum_vars>>

\* combined_loader.sampler
CombinedLoader_sampler ==
    /\ Constructed
    /\ view' = Read("sampler", sampler(loaders))
    /\ UNCHANGED <<raw, mode, loaders, cycle, session, len_result, dataset, init_touched,
                   accum_vars>>

NextDataset ==
    \/ CombinedLoader_construct
    \/ FirstSession_iter
    \/ FirstSession_next
    \/ CombinedLoader_len_constructed
    \/ CombinedDataset_max_len
    \/ CombinedDataset_min_len
    \/ CombinedDataset_dataset_len
    \/ CombinedLoader_sampler

SpecDataset == InitDataset /\ [][NextDataset]_vars

\* C12: a constructor call with a mode that is not supported raises
\* MisconfigurationException, and it has done nothing to the loaders by
\* then: no attribute read, no length taken, nothing wrapped.
C12_InvalidModeUntouched ==
    (mode \notin Modes /\ loaders # NoValue) =>
        /\ loaders = Raise("MisconfigurationException")
        /\ init_touched = {}

\* The part of C12 that holds: the constructor raises, and neither takes a
\* length nor wraps.
C12_InvalidModeRaises ==
    (mode \notin Modes /\ loaders # NoValue) =>
        /\ loaders = Raise("MisconfigurationException")
        /\ dataset = NoValue
        /\ init_touched \subseteq {"getattr"}

\* C13: over an empty sequence or mapping, the reduction of the lengths
\* raises ValueError and returns no length, with min (len() of the
\* CombinedLoader, min_len, the dataset's length in min_size) and with max
\* (max_len, the dataset's length and the constructor in max_size_cycle).
C13_EmptyRaises ==
    (IsCollection /\ N = 0) =>
        /\ (len_result # NoValue => len_result = Raise("ValueError"))
        /\ (view # NoValue /\ view.op \in {"max_len", "min_len", "dataset_len"} =>
                view.res = Raise("ValueError"))
        /\ (mode = "max_size_cycle" /\ loaders # NoValue => loaders = Raise("ValueError"))

\* Over an empty container, len() has raised (min) and max_len has raised.
C13_Witness ==
    /\ IsCollection /\ N = 0
    /\ len_result = Raise("ValueError")
    /\ view = Read("max_len", Raise("ValueError"))

\* The lengths the datasets of the leaves declare.
DatasetLen(i) == IF Leaf(i).haslen THEN Leaf(i).n * BatchSize ELSE Inf
ShortestDataset == MinOfLengths({DatasetLen(i) : i \in 1..N})
LongestDataset == MaxOfLengths({DatasetLen(i) : i \in 1..N})

ReadStep == view' # view \/ len_result' # len_result

\* What was read is a function of the constructor's arguments alone, and
\* max_len and min_len give a length in either mode.
C17_SameValues ==
    /\ len_result # NoValue => len_result = calc_num_batches(CombinedLoader_init(raw, mode))
    /\ view # NoValue =>
          LET ds == CombinedDataset(DatasetsOf(raw), mode)
          IN  /\ view.op = "max_len" => view.res = calc_num_data(ds.datasets, "max_size_cycle")
              /\ view.op = "min_len" => view.res = calc_num_data(ds.datasets, "min_size")
              /\ view.op = "dataset_len" => view.res = calc_num_data(ds.datasets, mode)
              /\ view.op = "sampler" => view.res = sampler(CombinedLoader_init(raw, mode))
              /\ (view.op \in {"max_len", "min_len"} /\ N >= 1) => IsNumber(view.res)

\* A read changes nothing but the value read, and repeats the value the
\* same read returned before.
C17_Frame ==
    ReadStep =>
        /\ UNCHANGED <<raw, mode, loaders, cycle, session, dataset, init_touched>>
        /\ (len_result # NoValue => len_result' = len_result)
        /\ (view # NoValue /\ view'.op = view.op => view'.res = view.res)

\* C17: len(), max_len, min_len and sampler are pure: whenever and however
\* often they are called, in either mode, they return the same values and
\* leave the mode, the loaders, every CycleIterator's counter and every
\* iterator's position as they were; max_len and min_len give a length in
\* both modes.
C17_ViewsPure == [](C17_SameValues) /\ [][C17_Frame]_vars

\* In max_size_cycle, in the middle of a session that has restarted a
\* loader, len() was called and min_len was read.
C17_Witness ==
    /\ mode = "max_size_cycle" /\ IsCollection /\ N = 2
    /\ session["s1"].succ >= 2 /\ ~session["s1"].failed
    /\ session["s1"].restarts[1] >= 1
    /\ cycle[1].counter >= 2
    /\ len_result # NoValue
    /\ view # NoValue /\ view.op = "min_len" /\ IsNumber(view.res)

(***************************************************************************)
(* One session after the other: the first session makes no call once the   *)
(* second has made its first.                                              *)
(***************************************************************************)
NextInTurn ==
    \/ \E s \in Sessions : CombinedLoader_iter(s)
    \/ \E s \in Sessions :
          /\ s = "s1" => session["s2"].st # "built"
          /\ CombinedLoaderIterator_next(s)
    \/ CombinedLoader_len

SpecInTurn == Init /\ [][NextInTurn]_vars

\* len(combined_loader)
Length == calc_num_batches(loaders).v

\* The values of a returned element, one per leaf.
Values(out) == IF IsCollection THEN out.items ELSE <<out>>

\* Session s has so far yielded the first elements of a pass of Length
\* elements that starts at every leaf's first element.
FreshPass(s) ==
    LET me == session[s]
    IN  /\ me.succ = Smaller(me.calls, Length)
        /\ me.failed = (me.calls > Length)
        /\ (me.calls >= 1 /\ me.out.kind # "raise") =>
               \A i \in 1..N : Values(me.out)[i] = Elem((me.succ - 1) % Count(i))

\* C14: a session begun after an earlier session of the same
\* CombinedLoader was exhausted or given up part-way yields, in either
\* mode, exactly len() elements from every leaf's first element on: its
\* first next() sets every CycleIterator's counter to 0 and gives it a new
\* iterator.
C14_FreshSession ==
    (AllSized /\ N >= 1) =>
        /\ \A s \in Sessions : FreshPass(s)
        /\ session["s2"].st = "built" =>
               \A i \in 1..N :
                   IsWrapped(i) => cycle[i].counter = Smaller(session["s2"].calls, Budget(i))

\* In max_size_cycle the first session ran until it failed, and the second
\* session then yielded all L elements, a shorter leaf restarted, and
\* failed in turn.
C14_Witness ==
    /\ mode = "max_size_cycle" /\ IsCollection /\ N = 2 /\ AllSized
    /\ Count(1) < Count(2) /\ Length >= 2
    /\ session["s1"].failed /\ session["s1"].succ = Length
    /\ session["s2"].failed /\ session["s2"].succ = Length
    /\ session["s2"].restarts[1] >= 1

(***************************************************************************)
(* CycleIterators without a bound, and the single loader.                  *)
(***************************************************************************)
\* C15: a CycleIterator of length inf around a loader that is not empty
\* never raises StopIteration: every next() on it since its __iter__
\* returned an element, so that a session over such wrappers alone never
\* fails.
C15_NeverEnds ==
    /\ \A i \in 1..N :
          (IsWrapped(i) /\ Budget(i) = Inf /\ Count(i) # 0) =>
              cycle[i].returned = cycle[i].counter
    /\ (\A i \in 1..N : IsWrapped(i) /\ Budget(i) = Inf /\ Count(i) # 0) =>
          \A s \in Sessions : ~session[s].failed /\ session[s].succ = session[s].calls

\* A wrapper of length inf around a loader of one element has returned an
\* element MaxCalls times in one session, restarted before every one but
\* the first.
C15_Witness ==
    /\ mode = "max_size_cycle" /\ IsCollection /\ N = 2
    /\ IsWrapped(1) /\ Budget(1) = Inf /\ Count(1) = 1
    /\ \E s \in Sessions :
          /\ session[s].succ = MaxCalls
          /\ session[s].restarts[1] = MaxCalls - 1
          /\ cycle[1].returned = MaxCalls

\* C18: in max_size_cycle a single loader, neither sequence nor mapping, is
\* kept as it is, and a session over it returns the loader's elements
\* once, in order, and raises StopIteration when the loader is exhausted;
\* nothing is restarted.
C18_SingleUnwrapped ==
    (mode = "max_size_cycle" /\ ~IsCollection) =>
        /\ loaders = raw
        /\ cycle = <<NoValue>>
        /\ \A s \in Sessions :
              LET me == session[s]
              IN  /\ me.restarts = <<0>>
                  /\ (me.calls >= 1 /\ me.out.kind # "raise") => me.out = Elem(me.succ - 1)
                  /\ me.failed => me.out = StopIteration
                  /\ Count(1) # Inf =>
                        /\ me.succ = Smaller(me.calls, Count(1))
                        /\ me.failed = (me.calls > Count(1))
                  /\ Count(1) = Inf => ~me.failed

\* A session over a single loader of two elements in max_size_cycle has
\* returned both and then raised StopIteration twice.
C18_Witness ==
    /\ mode = "max_size_cycle" /\ ~IsCollection /\ Count(1) = 2
    /\ \E s \in Sessions :
          /\ session[s].calls = Count(1) + 2 /\ session[s].succ = Count(1)
          /\ session[s].out = StopIteration

(***************************************************************************)
(* Loaders whose iterators raise something other than StopIteration.       *)
(***************************************************************************)
SizedLeaves == {Src(n, TRUE) : n \in 1..MaxLen}
FaultyLeaves == UNION {{FailingSrc(n, at) : at \in 0..(n - 1)} : n \in 1..MaxLen}
FaultyLeafSeqs ==
    {x \in UNION {[1..k -> SizedLeaves \cup FaultyLeaves] : k \in {1, 2}} :
        \E i \in DOMAIN x : x[i] \in FaultyLeaves}

\* A failing loader, or a sequence or mapping of one or two loaders, one of
\* them at least failing.
FaultyContainers ==
    FaultyLeaves \cup {SeqOf(x) : x \in FaultyLeafSeqs} \cup {MapOf(x) : x \in FaultyLeafSeqs}

InitFaulty == \E m \in Modes, given \in FaultyContainers : AfterInit(given, m)

NextFaulty ==
    \/ FirstSession_iter
    \/ FirstSession_next
    \/ CombinedLoader_len

SpecFaulty == InitFaulty /\ [][NextFaulty]_vars

IsFaulty(i) == "failat" \in DOMAIN Leaf(i)

\* The number of elements returned before the first failure.
FirstFail == Minimum({Leaf(i).failat : i \in {j \in 1..N : IsFaulty(j)}})

\* No loader ends, and no budget is used up, before the first failure.
NothingEndsEarlier ==
    \/ mode = "max_size_cycle" /\ IsCollection
    \/ \A i \in 1..N : ~IsFaulty(i) => Count(i) > FirstFail

\* Where the session's iterator over leaf i stands.
PosOf(i) ==
    IF IsWrapped(i) THEN cycle[i]._loader_iter ELSE session["s1"].iters[i].pos

\* C16: an exception other than StopIteration raised by a loader's next()
\* is not caught and nothing is tried again: it leaves CycleIterator's
\* next() and the session's next(), no new iterator is made over the
\* failing loader, whose iterator stays where it failed, and the session
\* returns nothing after it.
C16_FailurePropagates ==
    LET me == session["s1"]
    IN  /\ \A i \in 1..N :
              IsFaulty(i) =>
                  /\ me.restarts[i] = 0
                  /\ me.st = "built" => PosOf(i) <= Leaf(i).failat
        /\ me.succ <= FirstFail
        /\ NothingEndsEarlier =>
              /\ me.succ = Smaller(me.calls, FirstFail)
              /\ me.calls = FirstFail + 1 => me.out = Raise("RuntimeError")
              /\ me.calls > FirstFail => me.out \in {Raise("RuntimeError"), StopIteration}

\* In max_size_cycle a session returned two elements, restarting the
\* first loader when it was exhausted, and then failed with the second
\* loader's RuntimeError; the second loader was not restarted.
C16_Witness ==
    /\ mode = "max_size_cycle" /\ IsCollection /\ N = 2
    /\ ~IsFaulty(1) /\ Count(1) = 1
    /\ IsFaulty(2) /\ Leaf(2).failat = 2
    /\ session["s1"].succ = 2
    /\ session["s1"].out = Raise("RuntimeError")
    /\ session["s1"].restarts = <<2, 0>>
    /\ cycle[2]._loader_iter = 2

(***************************************************************************)
(* TensorRunningAccum. A tensor is a number; memory is a sequence of       *)
(* window_length numbers, the empty sequence while it is None; a mean is   *)
(* the pair of the sum and the count it is the quotient of.                *)
(***************************************************************************)
\* The largest window_length.
MaxWindow == 3
\* The appended values are 0 .. MaxValue.
MaxValue == 2
\* The largest number of appends between two resets.
MaxAppends == 4

Tensor(v) == [kind |-> "tensor", v |-> v]
Mean(total, count) == [kind |-> "mean", sum |-> total, n |-> count]

RECURSIVE SumOf(_)
SumOf(xs) == IF xs = <<>> THEN 0 ELSE Head(xs) + SumOf(Tail(xs))
MaxOf(xs) == Maximum({xs[i] : i \in 1..Len(xs)})
MinOf(xs) == Minimum({xs[i] : i \in 1..Len(xs)})

\* getattr(tensor, how)() for how in mean, max, min.
Aggregate(xs, how) ==
    IF how = "mean" THEN Mean(SumOf(xs), Len(xs))
    ELSE IF how = "max" THEN Tensor(MaxOf(xs))
    ELSE Tensor(MinOf(xs))

\* TensorRunningAccum.__init__
TensorRunningAccum(window_length) ==
    [window_length |-> window_length, memory |-> <<>>, current_idx |-> 0,
     last_idx |-> None, rotated |-> FALSE]

\* TensorRunningAccum.reset
reset(a) == TensorRunningAccum(a.window_length)

\* TensorRunningAccum.last
last(a) == IF a.last_idx # None THEN Tensor(a.memory[a.last_idx + 1]) ELSE PyNone

\* TensorRunningAccum.append: memory is made of zeros by the first append;
\* x is stored at current_idx, which then moves on modulo window_length.
append(a, x) ==
    LET memory == IF a.memory = <<>> THEN [i \in 1..a.window_length |-> 0] ELSE a.memory
        current_idx == (a.current_idx + 1) % a.window_length
    IN  [window_length |-> a.window_length,
         memory |-> [memory EXCEPT ![a.current_idx + 1] = x],
         current_idx |-> current_idx,
         last_idx |-> a.current_idx,
         rotated |-> a.rotated \/ current_idx = 0]

\* As agg_memory, but always over the whole memory.
agg_memory_whole(a, how) ==
    IF a.last_idx # None THEN Aggregate(a.memory, how) ELSE PyNone

\* TensorRunningAccum._agg_memory: over the whole memory once rotated, over
\* memory[:current_idx] before.
agg_memory(a, how) ==
    IF a.last_idx # None
    THEN IF a.rotated THEN Aggregate(a.memory, how)
         ELSE Aggregate(SubSeq(a.memory, 1, a.current_idx), how)
    ELSE PyNone

\* Before any CombinedLoader is made.
NoCombinedLoader ==
    /\ raw = NoValue /\ mode = "min_size" /\ loaders = NoValue /\ cycle = <<>>
    /\ session = [s \in Sessions |-> NewSession(0)] /\ len_result = NoValue
    /\ dataset = NoValue /\ init_touched = {} /\ view = NoValue

\* The state after TensorRunningAccum(window_length) returned.
InitAccum ==
    /\ \E window_length \in 1..MaxWindow : accum = TensorRunningAccum(window_length)
    /\ appended = <<>>
    /\ accum_out = NoValue
    /\ NoCombinedLoader

TensorRunningAccum_append ==
    /\ Len(appended) < MaxAppends
    /\ \E x \in 0..MaxValue :
          /\ accum' = append(accum, x)
          /\ appended' = Append(appended, x)
    /\ UNCHANGED <<raw, mode, loaders, cycle, session, len_result, dataset_vars, accum_out>>

TensorRunningAccum_reset ==
    /\ accum' = reset(accum)
    /\ appended' = <<>>
    /\ UNCHANGED <<raw, mode, loaders, cycle, session, len_result, dataset_vars, accum_out>>

TensorRunningAccum_last ==
    /\ accum_out' = Read("last", last(accum))
    /\ UNCHANGED <<raw, mode, loaders, cycle, session, len_result, dataset_vars, accum, appended>>

\* mean(), max() and min().
TensorRunningAccum_agg ==
    /\ \E how \in {"mean", "max", "min"} : accum_out' = Read(how, agg_memory(accum, how))
    /\ UNCHANGED <<raw, mode, loaders, cycle, session, len_result, dataset_vars, accum, appended>>

NextAccum ==
    \/ TensorRunningAccum_append
    \/ TensorRunningAccum_reset
    \/ TensorRunningAccum_last
    \/ TensorRunningAccum_agg

SpecAccum == InitAccum /\ [][NextAccum]_vars

\* The last min(k, window_length) of the k values appended since the
\* accumulator was made or reset.
Window ==
    LET k == Len(appended)
    IN  SubSeq(appended, k - Smaller(k, accum.window_length) + 1, k)

ExpectedLast == IF appended = <<>> THEN PyNone ELSE Tensor(appended[Len(appended)])

ExpectedAgg(how) ==
    IF appended = <<>> THEN PyNone
    ELSE IF how = "mean" THEN Mean(SumOf(Window), Len(Window))
    ELSE IF how = "max" THEN Tensor(CHOOSE m \in 0..MaxValue :
                                        /\ \E i \in 1..Len(Window) : Window[i] = m
                                        /\ \A i \in 1..Len(Window) : Window[i] <= m)
    ELSE Tensor(CHOOSE m \in 0..MaxValue :
                    /\ \E i \in 1..Len(Window) : Window[i] = m
                    /\ \A i \in 1..Len(Window) : Window[i] >= m)

\* What last(), mean(), max() and min() give in this state.
C20_Values ==
    /\ last(accum) = ExpectedLast
    /\ \A how \in {"mean", "max", "min"} : agg_memory(accum, how) = ExpectedAgg(how)

\* What a call of last(), mean(), max() or min() returned.
C20_Returned ==
    accum_out' # accum_out =>
        /\ accum_out'.res = (IF accum_out'.op = "last" THEN ExpectedLast
                             ELSE ExpectedAgg(accum_out'.op))
        /\ UNCHANGED <<accum, appended>>

\* C20: a TensorRunningAccum of window length W to which k values were
\* appended since it was made or last reset gives, from last(), the value
\* appended last and, from mean(), min() and max(), the mean, minimum and
\* maximum of the last min(k, W) values appended; with k = 0 all four give
\* None.
C20_WindowAggregates == [](C20_Values) /\ [][C20_Returned]_vars

\* With window length 2, after the appends 2, 0, 1, max() returned 1: the
\* 2 has left the window.
C20_Witness ==
    /\ accum.window_length = 2 /\ accum.rotated
    /\ appended = <<2, 0, 1>>
    /\ accum_out = Read("max", Tensor(1))

(***************************************************************************)
(* One next() of a CycleIterator: the counter and the restart.             *)
(***************************************************************************)
\* C21: the counter of a CycleIterator is the number of elements its
\* next() has returned since its last __iter__; a next() that raises leaves
\* the counter as it was.
C21_CounterIsReturned ==
    \A i \in 1..N : IsWrapped(i) => cycle[i].counter = cycle[i].returned

\* C21 holds of the wrappers around loaders that are not empty, and no
\* counter is ever below the number of elements returned.
C21_NonEmptyCounted ==
    \A i \in 1..N :
        IsWrapped(i) =>
            /\ cycle[i].counter >= cycle[i].returned
            /\ Count(i) # 0 => cycle[i].counter = cycle[i].returned

\* Some leaf is an empty loader.
SomeEmpty == \E i \in 1..N : Count(i) = 0

\* C22: one next() of a CycleIterator makes at most one new iterator, and
\* when the new iterator over an empty loader raises StopIteration at once
\* the call raises StopIteration: a session over wrappers one of which is
\* around an empty loader never returns an element, and the wrapper has
\* returned nothing and holds an iterator at the loader's start.
C22_OneRestart ==
    /\ \A s \in Sessions : \A i \in 1..N : session[s].restarts[i] <= session[s].calls
    /\ (mode = "max_size_cycle" /\ IsCollection /\ SomeEmpty) =>
          /\ \A s \in Sessions :
                session[s].calls >= 1 =>
                    session[s].out = StopIteration /\ session[s].succ = 0
          /\ \A i \in 1..N :
                Count(i) = 0 =>
                    cycle[i].returned = 0 /\ cycle[i]._loader_iter \in {None, 0}

\* A next() restarted the wrapper around an empty first loader, budget 2,
\* and raised StopIteration; the second call did so again.
C22_Witness ==
    /\ mode = "max_size_cycle" /\ IsCollection /\ N = 2
    /\ Count(1) = 0 /\ Budget(1) = 2
    /\ \E s \in Sessions :
          /\ session[s].calls = 2
          /\ session[s].restarts[1] = 2
          /\ session[s].out = StopIteration
          /\ cycle[1]._loader_iter = 0

(***************************************************************************)
(* The iterators of a session.                                             *)
(***************************************************************************)
\* A session holds no iterators before its first next() and one per
\* top-level value after it: the CycleIterator itself for a wrapped loader,
\* an iterator of its own for a bare one.
C23_Built ==
    \A s \in Sessions :
        LET me == session[s]
        IN  /\ me.st \in {"unborn", "new"} => me.iters = <<>> /\ me.calls = 0
            /\ me.st = "built" =>
                  /\ Len(me.iters) = N /\ me.calls >= 1
                  /\ \A i \in 1..N : me.iters[i] = SelfIter <=> IsWrapped(i)

\* iter(combined_loader) touches no CycleIterator and makes no iterator;
\* the first next() calls iter() on every top-level value, so that every
\* iterator has moved by at most one element from the loader's start; a
\* later next() keeps the iterators it has and moves them on from where
\* they stand, every bare loader's iterator by one element when the call
\* returns.
C23_Step ==
    \A s \in Sessions :
        /\ (session[s].st = "unborn" /\ session'[s].st = "new") =>
              cycle' = cycle /\ session'[s].iters = <<>>
        /\ (session[s].st = "new" /\ session'[s].st = "built") =>
              \A i \in 1..N :
                  IF IsWrapped(i)
                  THEN cycle'[i].counter <= 1 /\ cycle'[i]._loader_iter \in {0, 1}
                  ELSE session'[s].iters[i].pos \in {0, 1}
        /\ (session[s].st = "built" /\ Called(s)) =>
              \A i \in 1..N :
                  IF IsWrapped(i)
                  THEN cycle'[i].counter \in {cycle[i].counter, cycle[i].counter + 1}
                  ELSE /\ session'[s].iters[i].pos \in
                              {session[s].iters[i].pos, session[s].iters[i].pos + 1}
                       /\ session'[s].out.kind # "raise" =>
                              session'[s].iters[i].pos = session[s].iters[i].pos + 1

\* C23: a session makes its iterators lazily and once: iter() on the
\* CombinedLoader makes none and calls __iter__ on no CycleIterator, the
\* first next() makes one per leaf, and no later next() of the session
\* makes them again.
C23_LazyOnce == [](C23_Built) /\ [][C23_Step]_vars

\* In min_size one session has moved its two iterators to the third
\* element while the other session, begun, has no iterators yet.
C23_Witness ==
    /\ mode = "min_size" /\ IsCollection /\ N = 2
    /\ session["s1"].st = "built" /\ session["s1"].succ = 3
    /\ session["s1"].iters = <<PlainIter(3), PlainIter(3)>>
    /\ session["s2"].st = "new" /\ session["s2"].iters = <<>>

\* C24: once a next() of a session has raised StopIteration, every later
\* next() of that session raises StopIteration, whatever is done with the
\* CombinedLoader and its other sessions in between.
C24_ExhaustionPermanent ==
    \A s \in Sessions : session[s].failed => session[s].out = StopIteration

\* C24 holds as long as only one session pulls, and in min_size.
C24_OneSession ==
    (OneSession \/ mode = "min_size") =>
        \A s \in Sessions : session[s].failed => session[s].out = StopIteration

(***************************************************************************)
(* The order of the pulls of one next().                                   *)
(***************************************************************************)
\* The number of elements taken so far from leaf i through the iterator
\* session s holds, in this state and in the next, a session that has made
\* no call holding none.
Taken(s, i) ==
    IF session[s].st # "built" THEN 0
    ELSE IF IsWrapped(i) THEN cycle[i].returned ELSE session[s].iters[i].pos

TakenAfter(s, i) ==
    IF IsWrapped(i) THEN cycle'[i].returned ELSE session'[s].iters[i].pos

\* What leaf i had given before the call of session s in this step: nothing
\* when the call is the session's first, which calls iter() on it.
Before(s, i) == IF session[s].st = "new" THEN 0 ELSE Taken(s, i)

\* In a step that is a next() of session s, the leaves before position j
\* give one element each and the leaves from j on give none.
StopsAt(s, j) ==
    /\ \A i \in 1..(j - 1) : TakenAfter(s, i) = Before(s, i) + 1
    /\ \A i \in j..N : TakenAfter(s, i) = Before(s, i)

C25_Step ==
    \A s \in Sessions :
        Called(s) =>
            IF session'[s].out.kind = "raise"
            THEN \E j \in 1..N : StopsAt(s, j)
            ELSE StopsAt(s, N + 1)

\* C25: one next() of a session pulls from the leaves one after the other
\* in the container's order and stops at the first leaf that raises
\* StopIteration: after a failing call every leaf before that one has given
\* exactly one more element and no leaf from it on has given any.
C25_PullsInOrder == [][C25_Step]_vars

\* In min_size over a mapping of a loader of three elements and a loader
\* of one, the second call failed at the second loader: the first loader
\* has given two elements, the second one.
C25_Witness ==
    /\ mode = "min_size" /\ IsMapping(raw) /\ N = 2
    /\ Count(1) = 3 /\ Count(2) = 1
    /\ \E s \in Sessions :
          /\ session[s].calls = 2 /\ session[s].failed
          /\ Taken(s, 1) = 2 /\ Taken(s, 2) = 1

====
